---------------------------- MODULE Spec2Model ----------------------------
(***************************************************************************)
(* A model of lagosGIS/NHDNetwork.py: the NHDNetwork instance (its flow    *)
(* dictionaries, identifier maps, start/stop ids) and the operations that  *)
(* trace the network, find lake outlets and classify lake connectivity.    *)
(*                                                                         *)
(* Permanent_Identifiers are Python strings.  They are modelled as         *)
(* sequences of characters (small naturals) so that the string operations  *)
(* of the source (substring tests with `in`, iteration over a string) are  *)
(* modelled by what they do.  None / the empty string is <<>>.             *)
(* Python lists are sequences, sets are sets, a defaultdict(list) is a     *)
(* function whose DOMAIN is the set of keys present in the dictionary.     *)
(***************************************************************************)
EXTENDS Integers, Sequences, FiniteSets, TLC

VARIABLES
    gdb,    \* the geodatabase tables read through arcpy.da.SearchCursor
    self,   \* the NHDNetwork instance: one field per attribute of __init__
    frame,  \* the local variables of a flowline trace that is in progress
    call    \* the last operation that returned: its name, arguments, result

vars == <<gdb, self, frame, call>>

-----------------------------------------------------------------------------
(* Identifiers *)

Null == <<0>>           \* the '0' end point of the flow table
None == <<>>            \* a flowline that lies in no waterbody

Range(s) == {s[i] : i \in DOMAIN s}

\* Python `a in b` for two strings: a is a substring of b.
IsSubstring(a, b) ==
    \E i \in 0..(Len(b) - Len(a)) : \A j \in 1..Len(a) : b[i + j] = a[j]

\* Iterating over a string yields its one-character strings.
Chars(str) == {<<str[i]>> : i \in DOMAIN str}

-----------------------------------------------------------------------------
(* defaultdict(list) *)

EmptyDict == <<>>

Keys(d) == DOMAIN d

\* d[k] of a defaultdict(list): the value read ...
Get(d, k) == IF k \in DOMAIN d THEN d[k] ELSE <<>>

\* ... and the dictionary afterwards: reading a missing key inserts it.
Touch(d, k) == IF k \in DOMAIN d THEN d ELSE (k :> <<>>) @@ d

TouchAll(d, ks) == [k \in DOMAIN d \cup ks |-> IF k \in DOMAIN d THEN d[k] ELSE <<>>]

\* d[k] = v
Put(d, k, v) == (k :> v) @@ d

\* {id for id_list in [d[id] for id in ids] for id in id_list}
Flat(d, ids) == UNION {Range(Get(d, id)) : id \in ids}

-----------------------------------------------------------------------------
(* The geodatabase.  gdb.flow is the NHDPlusFlow table, rows <<from, to>>;  *)
(* gdb.flowline the NHDFlowline table, rows [id, wb, fcode]; gdb.waterbody  *)
(* the NHDWaterbody table, rows [id, area, lagos_fcode].  Areas are in      *)
(* thousandths of a square kilometre (1 = 0.001 km2 = 0.1 ha).              *)

IntermittentFCodes == {46003, 46007}

\* 0.009 km2 and 0.01 km2, the lower area limits of define_lakes
LakeMinSize == 9
LakeMinSizeStrict == 10

\* 0.1 km2 = 10 ha, the limit of activate_10ha_lake_stops
TenHaArea == 100

-----------------------------------------------------------------------------
(* __init__ *)

NewInstance ==
    [ waterbody_start_ids       |-> <<>>,
      flowline_start_ids        |-> <<>>,
      flowline_stop_ids         |-> <<>>,
      waterbody_stop_ids        |-> <<>>,
      tenha_waterbody_ids       |-> <<>>,
      upstream                  |-> EmptyDict,
      downstream                |-> EmptyDict,
      flowline_waterbody        |-> EmptyDict,
      waterbody_flowline        |-> EmptyDict,
      intermit_flowline_ids     |-> {},
      inlets                    |-> <<>>,
      outlets                   |-> <<>>,
      outlets_type              |-> "None",
      exclude_intermittent_flow |-> FALSE,
      lakes_areas               |-> <<>> ]

\* What an operation gives back: the instance afterwards and the value returned.
Result(s, r) == [self |-> s, ret |-> r]

-----------------------------------------------------------------------------
(* Utilities for higher methods *)

\* UpstreamRows without the case of line 127: the null id is a neighbour
\* like any other.
RECURSIVE UpstreamRowsNullListed(_, _, _)
UpstreamRowsNullListed(rows, intermit, d) ==
    IF rows = <<>> THEN d
    ELSE LET from_id == Head(rows)[1]
             to_id   == Head(rows)[2]
             d2 == IF from_id \notin intermit
                   THEN Put(d, to_id, Append(Get(d, to_id), from_id))
                   ELSE d
         IN  UpstreamRowsNullListed(Tail(rows), intermit, d2)

RECURSIVE UpstreamRows(_, _, _)
UpstreamRows(rows, intermit, d) ==
    IF rows = <<>> THEN d
    ELSE LET from_id == Head(rows)[1]
             to_id   == Head(rows)[2]
             d2 == IF from_id = Null THEN Put(d, to_id, <<>>)
                   ELSE IF from_id \notin intermit
                        THEN Put(d, to_id, Append(Get(d, to_id), from_id))
                        ELSE d
         IN  UpstreamRows(Tail(rows), intermit, d2)

RECURSIVE DownstreamRows(_, _, _)
DownstreamRows(rows, intermit, d) ==
    IF rows = <<>> THEN d
    ELSE LET from_id == Head(rows)[1]
             to_id   == Head(rows)[2]
             d2 == IF to_id = Null THEN Put(d, from_id, <<>>)
                   ELSE IF to_id \notin intermit
                        THEN Put(d, from_id, Append(Get(d, from_id), to_id))
                        ELSE d
         IN  DownstreamRows(Tail(rows), intermit, d2)

prepare_upstream(s, force_refresh) ==
    IF Keys(s.upstream) = {} \/ force_refresh
    THEN [s EXCEPT !.upstream = UpstreamRows(gdb.flow, s.intermit_flowline_ids, EmptyDict)]
    ELSE s

prepare_downstream(s, force_refresh) ==
    IF Keys(s.downstream) = {} \/ force_refresh
    THEN [s EXCEPT !.downstream = DownstreamRows(gdb.flow, s.intermit_flowline_ids, EmptyDict)]
    ELSE s

\* RefreshFlow without lines 184-187 and 200-203: the dictionaries stay as
\* they were built.
RefreshFlowNever(s) == s

\* Both dictionaries are refreshed only if they are populated.
RefreshFlow(s) ==
    LET s1 == IF Keys(s.upstream) # {} THEN prepare_upstream(s, TRUE) ELSE s
    IN  IF Keys(s1.downstream) # {} THEN prepare_downstream(s1, TRUE) ELSE s1

drop_intermittent_flow(s) ==
    RefreshFlow([s EXCEPT
        !.intermit_flowline_ids =
            {gdb.flowline[i].id : i \in {j \in DOMAIN gdb.flowline :
                                           gdb.flowline[j].fcode \in IntermittentFCodes}},
        !.exclude_intermittent_flow = TRUE])

include_intermittent_flow(s) ==
    RefreshFlow([s EXCEPT !.intermit_flowline_ids = {},
                          !.exclude_intermittent_flow = FALSE])

\* {r[0]: r[1] for r in rows if r[1]}: a later row of the same flowline wins.
RECURSIVE FlowlineWaterbodyRows(_, _)
FlowlineWaterbodyRows(rows, d) ==
    IF rows = <<>> THEN d
    ELSE FlowlineWaterbodyRows(Tail(rows),
            IF Head(rows).wb # None THEN Put(d, Head(rows).id, Head(rows).wb) ELSE d)

map_flowlines_to_waterbodies(s) ==
    [s EXCEPT !.flowline_waterbody = FlowlineWaterbodyRows(gdb.flowline, EmptyDict)]

\* The rows are appended to the dictionary as it is: it is not reset first.
RECURSIVE WaterbodyFlowlineRows(_, _)
WaterbodyFlowlineRows(rows, d) ==
    IF rows = <<>> THEN d
    ELSE WaterbodyFlowlineRows(Tail(rows),
            IF Head(rows).wb # None
            THEN Put(d, Head(rows).wb, Append(Get(d, Head(rows).wb), Head(rows).id))
            ELSE d)

map_waterbodies_to_flowlines(s) ==
    [s EXCEPT !.waterbody_flowline = WaterbodyFlowlineRows(gdb.flowline, s.waterbody_flowline)]

\* lakes_areas keeps the order of the waterbody table (a dict keeps insertion
\* order); force_lagos is left at its default, so force_ids is empty.
RECURSIVE LakeRows(_, _)
LakeRows(rows, lake_minsize) ==
    IF rows = <<>> THEN <<>>
    ELSE LET rest == LakeRows(Tail(rows), lake_minsize)
         IN  IF Head(rows).area >= lake_minsize /\ Head(rows).lagos_fcode
             THEN <<[id |-> Head(rows).id, area |-> Head(rows).area]>> \o rest
             ELSE rest

define_lakes(s, strict_minsize) ==
    [s EXCEPT !.lakes_areas =
        LakeRows(gdb.waterbody, IF strict_minsize THEN LakeMinSizeStrict ELSE LakeMinSize)]

-----------------------------------------------------------------------------
(* Network setup for tracing *)

\* [id for id_list in [d[k] for k in ids] for id in id_list]
RECURSIVE FlattenLists(_, _)
FlattenLists(d, ids) ==
    IF ids = <<>> THEN <<>> ELSE Get(d, Head(ids)) \o FlattenLists(d, Tail(ids))

MapWaterbodiesIfEmpty(s) ==
    IF Keys(s.waterbody_flowline) = {} THEN map_waterbodies_to_flowlines(s) ELSE s

set_start_ids(s, waterbody_start_ids) ==
    LET s1 == MapWaterbodiesIfEmpty(s)
        flat == FlattenLists(s1.waterbody_flowline, waterbody_start_ids)
    IN  Result([s1 EXCEPT
                  !.waterbody_start_ids = waterbody_start_ids,
                  !.waterbody_flowline  = TouchAll(@, Range(waterbody_start_ids)),
                  !.flowline_start_ids  = flat],
               flat)

set_stop_ids(s, waterbody_stop_ids) ==
    LET s1 == MapWaterbodiesIfEmpty(s)
        flat == FlattenLists(s1.waterbody_flowline, waterbody_stop_ids)
    IN  Result([s1 EXCEPT
                  !.waterbody_stop_ids = waterbody_stop_ids,
                  !.waterbody_flowline = TouchAll(@, Range(waterbody_stop_ids)),
                  !.flowline_stop_ids  = flat],
               flat)

TenHaLakes(lakes) == SelectSeq(lakes, LAMBDA l : l.area >= TenHaArea)

IdsOf(lakes) == [i \in DOMAIN lakes |-> lakes[i].id]

activate_10ha_lake_stops(s) ==
    LET s1 == IF s.lakes_areas = <<>> THEN define_lakes(s, FALSE) ELSE s
        ids == IdsOf(TenHaLakes(s1.lakes_areas))
        s2 == set_stop_ids(s1, ids).self
    IN  Result([s2 EXCEPT !.tenha_waterbody_ids = s2.waterbody_stop_ids],
               s2.waterbody_stop_ids)

deactivate_stops(s) ==
    [s EXCEPT !.waterbody_stop_ids = <<>>, !.flowline_stop_ids = <<>>]

-----------------------------------------------------------------------------
(* Watershed tracing.  trace_up_from_a_flowline and                        *)
(* trace_down_from_a_flowline are the same code over self.upstream and     *)
(* self.downstream; dir ("up" or "down") names the dictionary.             *)
(* all_from_ids is a list that only ever has its length taken and is       *)
(* turned into a set: it is kept as the set of its members (all_ids) and   *)
(* its length (all_len).  iters and since are history counters: the loop   *)
(* iterations so far, and those since the test of line 353 was first true  *)
(* (-1 before).                                                            *)

FlowDict(s, dir) == IF dir = "up" THEN s.upstream ELSE s.downstream

WithFlowDict(s, dir, d) ==
    IF dir = "up" THEN [s EXCEPT !.upstream = d] ELSE [s EXCEPT !.downstream = d]

PrepareFlow(s, dir) ==
    IF dir = "up" THEN prepare_upstream(s, FALSE) ELSE prepare_downstream(s, FALSE)

\* TraceStart without line 338: the start point is not put in the trace.
TraceStartWithoutStart(s, dir, flowline_start_id) ==
    LET s1 == PrepareFlow(s, dir)
        from_list == Get(FlowDict(s1, dir), flowline_start_id)
        d == Touch(FlowDict(s1, dir), flowline_start_id)
    IN  [self |-> WithFlowDict(s1, dir, d),
         loop |-> [from_ids |-> Range(from_list),
                   all_ids  |-> Range(from_list),
                   all_len  |-> Len(from_list),
                   limit    |-> Cardinality(Keys(d)),
                   iters    |-> 0,
                   since    |-> -1]]

\* Lines 330-339: up to the first test of the while loop.
TraceStart(s, dir, flowline_start_id) ==
    LET s1 == PrepareFlow(s, dir)
        from_list == Get(FlowDict(s1, dir), flowline_start_id)
        d == Touch(FlowDict(s1, dir), flowline_start_id)
    IN  [self |-> WithFlowDict(s1, dir, d),
         loop |-> [from_ids |-> Range(from_list),
                   all_ids  |-> Range(from_list) \cup {flowline_start_id},
                   all_len  |-> Len(from_list) + 1,
                   limit    |-> Cardinality(Keys(d)),
                   iters    |-> 0,
                   since    |-> -1]]

\* Lines 343-359, the end of an iteration: the dictionary after the reads of
\* line 343, the list after line 354 (length len) extended by the new from_ids.
StepResult(s, dir, l, from_ids, all_ids, len, dedup) ==
    [self |-> WithFlowDict(s, dir, TouchAll(FlowDict(s, dir), l.from_ids)),
     loop |-> [from_ids |-> from_ids,
               all_ids  |-> all_ids \cup from_ids,
               all_len  |-> len + Cardinality(from_ids),
               limit    |-> l.limit,
               iters    |-> l.iters + 1,
               since    |-> IF dedup \/ l.since >= 0 THEN
                              (IF l.since < 0 THEN 1 ELSE l.since + 1)
                            ELSE -1]]

\* TraceStep that ends the trace once the list holds limit entries, instead
\* of going on with the ids that are new.
TraceStepStopAtLimit(s, dir, l) ==
    LET flat == Flat(FlowDict(s, dir), l.from_ids)
        next_flat == IF s.flowline_stop_ids # <<>>
                     THEN flat \ Range(s.flowline_stop_ids) ELSE flat
        dedup == l.all_len >= l.limit
    IN  StepResult(s, dir, l, IF dedup THEN {} ELSE next_flat, l.all_ids,
                   IF dedup THEN Cardinality(l.all_ids) ELSE l.all_len, dedup)

\* TraceStep without the test of line 353: the ids already traced are never
\* taken out of the next ids.
TraceStepNoDedup(s, dir, l) ==
    LET flat == Flat(FlowDict(s, dir), l.from_ids)
        next_flat == IF s.flowline_stop_ids # <<>>
                     THEN flat \ Range(s.flowline_stop_ids) ELSE flat
    IN  StepResult(s, dir, l, next_flat, l.all_ids, l.all_len, l.all_len >= l.limit)

\* TraceStep that records the barriers it meets and only does not go on from
\* them.
TraceStepKeepBarrier(s, dir, l) ==
    LET flat == Flat(FlowDict(s, dir), l.from_ids)
        next_flat == IF s.flowline_stop_ids # <<>>
                     THEN flat \ Range(s.flowline_stop_ids) ELSE flat
        dedup == l.all_len >= l.limit
    IN  StepResult(s, dir, l, IF dedup THEN next_flat \ l.all_ids ELSE next_flat,
                   l.all_ids \cup flat,
                   IF dedup THEN Cardinality(l.all_ids) ELSE l.all_len, dedup)

\* Lines 343-359: one iteration of the while loop.
TraceStep(s, dir, l) ==
    LET flat == Flat(FlowDict(s, dir), l.from_ids)
        next_flat == IF s.flowline_stop_ids # <<>>
                     THEN flat \ Range(s.flowline_stop_ids) ELSE flat
        dedup == l.all_len >= l.limit
    IN  StepResult(s, dir, l, IF dedup THEN next_flat \ l.all_ids ELSE next_flat,
                   l.all_ids,
                   IF dedup THEN Cardinality(l.all_ids) ELSE l.all_len, dedup)

\* Lines 361-369: the waterbody ids of the traced flowlines are added.
TraceFinish(s, l, include_wb_permids) ==
    IF include_wb_permids
    THEN LET s1 == IF Keys(s.flowline_waterbody) = {}
                   THEN map_flowlines_to_waterbodies(s) ELSE s
             wb_permids_set == {s1.flowline_waterbody[id] :
                                  id \in l.all_ids \cap Keys(s1.flowline_waterbody)}
             wb_permids == wb_permids_set \ Range(s1.waterbody_stop_ids)
         IN  Result(s1, l.all_ids \cup wb_permids)
    ELSE Result(s, l.all_ids)

\* The while loop of lines 345-359, from the state r = [self, loop].
RECURSIVE TraceLoop(_, _)
TraceLoop(r, dir) ==
    IF r.loop.from_ids = {} THEN r
    ELSE TraceLoop(TraceStep(r.self, dir, r.loop), dir)

TraceEnd(r, include_wb_permids) == TraceFinish(r.self, r.loop, include_wb_permids)

TraceFromAFlowline(s, dir, flowline_start_id, include_wb_permids) ==
    TraceEnd(TraceLoop(TraceStart(s, dir, flowline_start_id), dir), include_wb_permids)

trace_up_from_a_flowline(s, flowline_start_id, include_wb_permids) ==
    TraceFromAFlowline(s, "up", flowline_start_id, include_wb_permids)

trace_down_from_a_flowline(s, flowline_start_id, include_wb_permids) ==
    TraceFromAFlowline(s, "down", flowline_start_id, include_wb_permids)

\* One more trace joined to the traces r.ret made so far.
AddTrace(r, one) == Result(one.self, r.ret \cup one.ret)

\* [trace(id, True) for id in ids], flattened to a set and joined to r.ret.
\* ids is a Python set; the traces depend on the order in which it is
\* iterated only through the keys that reads insert, which are the same in
\* every order.
RECURSIVE TraceAll(_, _, _)
TraceAll(r, dir, ids) ==
    IF ids = {} THEN r
    ELSE LET id == CHOOSE i \in ids : TRUE
         IN  TraceAll(AddTrace(r, TraceFromAFlowline(r.self, dir, id, TRUE)), dir, ids \ {id})

-----------------------------------------------------------------------------
(* Lake outlets and inlets; traces from a waterbody *)

\* Lines 774-778 (dir = "up") and 794-798 (dir = "down"): the flowlines of
\* the waterbody that are no neighbour, in the flow dictionary, of one of them.
LakeEnds(s, dir, waterbody_start_id) ==
    LET flowline_start_ids == Range(Get(s.waterbody_flowline, waterbody_start_id))
    IN  Result([WithFlowDict(s, dir, TouchAll(FlowDict(s, dir), flowline_start_ids)) EXCEPT
                   !.waterbody_flowline = Touch(@, waterbody_start_id)],
               flowline_start_ids \ Flat(FlowDict(s, dir), flowline_start_ids))

\* identify_lake_outlets (dir = "up") and identify_lake_inlets (dir = "down")
IdentifyLakeEnds(s, dir, waterbody_start_id) ==
    LakeEnds(MapWaterbodiesIfEmpty(PrepareFlow(s, dir)), dir, waterbody_start_id)

identify_lake_outlets(s, waterbody_start_id) == IdentifyLakeEnds(s, "up", waterbody_start_id)

identify_lake_inlets(s, waterbody_start_id) == IdentifyLakeEnds(s, "down", waterbody_start_id)

\* Lines 449-456: the waterbody's own ids are taken out of the barriers.  The
\* test `id not in waterbody_start_id` is a test on two strings.
RemoveOwnStops(s, waterbody_start_id) ==
    IF s.flowline_stop_ids # <<>>
    THEN [s EXCEPT
            !.flowline_stop_ids =
                SelectSeq(@, LAMBDA id : id \notin Range(s.waterbody_flowline[waterbody_start_id])),
            !.waterbody_stop_ids = SelectSeq(@, LAMBDA id : ~IsSubstring(id, waterbody_start_id))]
    ELSE s

\* Lines 464-467, and 887-890 of the classifier: the barriers saved at the
\* start are put back, if there were any.
RestoreStops(r, saved) ==
    Result(IF saved.flowline_stop_ids # <<>>
           THEN [r.self EXCEPT !.flowline_stop_ids = saved.flowline_stop_ids,
                               !.waterbody_stop_ids = saved.waterbody_stop_ids]
           ELSE r.self,
           r.ret)

\* Lines 460-461: a trace from each of the outlets (inlets) found.
TraceFromEnds(ends, dir) == TraceAll(Result(ends.self, {}), dir, ends.ret)

\* Lines 446-469, for an instance s whose dictionaries are in place.
TraceWithoutOwnStops(s, dir, waterbody_start_id) ==
    RestoreStops(TraceFromEnds(IdentifyLakeEnds(RemoveOwnStops(s, waterbody_start_id),
                                                dir, waterbody_start_id), dir), s)

\* trace_up_from_a_waterbody (dir = "up") and trace_down_from_a_waterbody
TraceFromAWaterbody(s, dir, waterbody_start_id) ==
    TraceWithoutOwnStops([MapWaterbodiesIfEmpty(PrepareFlow(s, dir)) EXCEPT
                             !.waterbody_flowline = Touch(@, waterbody_start_id)],
                         dir, waterbody_start_id)

trace_up_from_a_waterbody(s, waterbody_start_id) ==
    TraceFromAWaterbody(s, "up", waterbody_start_id)

trace_down_from_a_waterbody(s, waterbody_start_id) ==
    TraceFromAWaterbody(s, "down", waterbody_start_id)

AddResult(r, id, one) == Result(one.self, r.ret @@ (id :> one.ret))

\* {id: self.trace_up_from_a_waterbody(id) for id in ids}, added to r.ret
RECURSIVE TraceUpEach(_, _)
TraceUpEach(r, ids) ==
    IF ids = <<>> THEN r
    ELSE TraceUpEach(AddResult(r, Head(ids), trace_up_from_a_waterbody(r.self, Head(ids))),
                     Tail(ids))

\* A method that ends in an exception: the instance is left as it is then.
Raised(s, exception) == [self |-> s, ret |-> [raised |-> exception], raised |-> TRUE]

Failed(r) == "raised" \in DOMAIN r

\* trace_up_from_waterbody_starts without the test of line 528.
TraceUpFromStartsUnchecked(s) ==
    TraceUpEach(Result(s, EmptyDict), s.waterbody_start_ids)

trace_up_from_waterbody_starts(s) ==
    IF s.waterbody_start_ids # <<>>
    THEN TraceUpEach(Result(s, EmptyDict), s.waterbody_start_ids)
    ELSE Raised(s, "Exception")

-----------------------------------------------------------------------------
(* Subregion inlets and outlets *)

\* The number written by the characters of an id, to put ids in an order.
RECURSIVE IdNum(_)
IdNum(id) ==
    IF id = <<>> THEN 0 ELSE 10 * IdNum(SubSeq(id, 1, Len(id) - 1)) + id[Len(id)]

\* A Python list made from a set or from the items of a dictionary.  The
\* order of such a list is left to the interpreter, and no method depends on
\* it; the lists of the model are in the order of the ids, without repeats.
RECURSIVE Listed(_)
Listed(ids) ==
    IF ids = {} THEN <<>>
    ELSE LET least == CHOOSE i \in ids : \A j \in ids : IdNum(i) <= IdNum(j)
         IN  <<least>> \o Listed(ids \ {least})

\* {f for from_list in self.upstream.values() for f in from_list}
FromAll(s) == Flat(s.upstream, Keys(s.upstream))

\* Lines 724-726: the lowest flow entities, '0' left aside.
DownstreamInlets(s) == (Keys(s.upstream) \ {Null}) \ FromAll(s)

\* Lines 730-731: the flow entities just above the lowest.
PrimaryOutlets(s) == Flat(s.upstream, DownstreamInlets(s))

\* {id: len(self.trace_up_from_a_flowline(id)) for id in ids}, added to r.ret
AddSize(r, id, one) == Result(one.self, r.ret @@ (id :> Cardinality(one.ret)))

RECURSIVE TraceSizes(_, _)
TraceSizes(r, ids) ==
    IF ids = {} THEN r
    ELSE LET id == CHOOSE i \in ids : TRUE
         IN  TraceSizes(AddSize(r, id, trace_up_from_a_flowline(r.self, id, TRUE)), ids \ {id})

\* Lines 754-755: the outlets with a network of half the largest at least.
MainOutlets(r) ==
    LET outlets == {id \in DOMAIN r.ret : \A other \in DOMAIN r.ret : 2 * r.ret[id] >= r.ret[other]}
    IN  Result([r.self EXCEPT !.outlets = Listed(outlets), !.outlets_type = "secondary"],
               Listed(outlets))

\* Lines 741-755.  In the branch of lines 750-752 the local list
\* lowest_to_ids is changed and nothing else: outlets stays what it was, and
\* outlets_type is not assigned.  max() of line 754 fails on an empty list.
SecondaryOutlets(s, outlets, downstream_inlets) ==
    LET lowest_to_ids == Keys(s.upstream) \ FromAll(s)
    IN  IF lowest_to_ids = {Null} \/ lowest_to_ids \ downstream_inlets = {Null}
        THEN Result([s EXCEPT !.outlets = Listed(outlets)], Listed(outlets))
        ELSE IF lowest_to_ids = {} THEN Raised(s, "ValueError")
             ELSE MainOutlets(TraceSizes(Result(s, EmptyDict), lowest_to_ids))

\* Lines 735-758, from the network net of the outlets; from_all is the
\* number of ids in the neighbour lists.  Line 737 divides by it.
CheckedOutlets(net, outlets, downstream_inlets, from_all) ==
    IF from_all = 0 THEN Raised(net.self, "ZeroDivisionError")
    ELSE IF outlets = {} \/ 2 * Cardinality(net.ret) < from_all
         THEN SecondaryOutlets(net.self, outlets, downstream_inlets)
         ELSE Result([net.self EXCEPT !.outlets = Listed(outlets), !.outlets_type = "primary"],
                     Listed(outlets))

SubregionOutlets(s) ==
    CheckedOutlets(TraceAll(Result(s, {}), "up", PrimaryOutlets(s)),
                   PrimaryOutlets(s), DownstreamInlets(s), Cardinality(FromAll(s)))

identify_subregion_outlets(s) == SubregionOutlets(prepare_upstream(s, FALSE))

SubregionInlets(s) ==
    LET from_ids == Keys(s.downstream) \ {Null}
        to_all == Flat(s.downstream, Keys(s.downstream))
        inlets == Listed(Flat(s.downstream, from_ids \ to_all))
    IN  Result([s EXCEPT !.inlets = inlets], inlets)

identify_subregion_inlets(s) == SubregionInlets(prepare_downstream(s, FALSE))

\* Lines 685-689: the waterbodies of the flowlines traced are added.
WithWaterbodies(r) ==
    Result(r.self,
           r.ret \cup {r.self.flowline_waterbody[id] : id \in r.ret \cap Keys(r.self.flowline_waterbody)})

TraceFromOutlets(r) ==
    IF Failed(r) THEN r
    ELSE WithWaterbodies(TraceAll(Result(r.self, {}), "up", Range(r.self.outlets)))

trace_up_from_hu4_outlets(s) ==
    TraceFromOutlets(IF s.outlets = <<>> THEN identify_subregion_outlets(s) ELSE Result(s, <<>>))

-----------------------------------------------------------------------------
(* Other connectivity calculations *)

\* ConnClass with line 866 and 867 left out: the flowlines of the waterbody
\* stay in its traces.
ConnClassKeepSelf(s, waterbody_start_id, trace_up, trace_down) ==
    LET inside_ids == Append(Get(s.waterbody_flowline, waterbody_start_id), waterbody_start_id)
        tenha_upstream == trace_up \cap Range(s.tenha_waterbody_ids)
    IN  Result([s EXCEPT !.waterbody_flowline = Put(@, waterbody_start_id, inside_ids)],
               IF trace_up = {}
               THEN (IF trace_down # {} THEN "Headwater" ELSE "Isolated")
               ELSE IF trace_down = {}
                    THEN (IF tenha_upstream # {} THEN "TerminalLk" ELSE "Terminal")
                    ELSE (IF tenha_upstream # {} THEN "DrainageLk" ELSE "Drainage"))

\* Lines 864-886: inside_ids is the list held by waterbody_flowline, and the
\* append of line 865 is made to that list.
ConnClass(s, waterbody_start_id, trace_up, trace_down) ==
    LET inside_ids == Append(Get(s.waterbody_flowline, waterbody_start_id), waterbody_start_id)
        nonself_trace_down == trace_down \ Range(inside_ids)
        nonself_trace_up == trace_up \ Range(inside_ids)
        tenha_upstream == nonself_trace_up \cap Range(s.tenha_waterbody_ids)
    IN  Result([s EXCEPT !.waterbody_flowline = Put(@, waterbody_start_id, inside_ids)],
               IF nonself_trace_up = {}
               THEN (IF nonself_trace_down # {} THEN "Headwater" ELSE "Isolated")
               ELSE IF nonself_trace_down = {}
                    THEN (IF tenha_upstream # {} THEN "TerminalLk" ELSE "Terminal")
                    ELSE (IF tenha_upstream # {} THEN "DrainageLk" ELSE "Drainage"))

\* Lines 845-849: the dictionaries and, at the first call, the 10 ha lakes.
PrepareClassifier(s) ==
    LET s1 == prepare_downstream(prepare_upstream(s, FALSE), FALSE)
    IN  IF Keys(s1.waterbody_flowline) = {} THEN map_flowlines_to_waterbodies(s1) ELSE s1

TenHaLakesDefined(s) ==
    IF s.tenha_waterbody_ids = <<>>
    THEN deactivate_stops(activate_10ha_lake_stops(s).self) ELSE s

\* Lines 857-858: the downstream trace follows the upstream trace.
TraceDownAfter(up, waterbody_start_id) ==
    [up |-> up.ret, down |-> trace_down_from_a_waterbody(up.self, waterbody_start_id)]

\* Lines 860-886, from the two traces t.
ClassOf(t, waterbody_start_id) ==
    IF t.up = {} /\ t.down.ret = {} /\ ~t.down.self.exclude_intermittent_flow
    THEN Result(t.down.self, "Isolated")
    ELSE ConnClass(t.down.self, waterbody_start_id, t.up, t.down.ret)

\* ClassifyWithoutStops without lines 851-856: the barriers stay active
\* while the two traces are made.
ClassifyWithStops(s, waterbody_start_id) ==
    ClassOf(TraceDownAfter(trace_up_from_a_waterbody(s, waterbody_start_id),
                           waterbody_start_id),
            waterbody_start_id)

\* Lines 852-890, with the barriers of s put back at the end.
ClassifyWithoutStops(s, waterbody_start_id) ==
    RestoreStops(ClassOf(TraceDownAfter(trace_up_from_a_waterbody(
                                            IF s.flowline_stop_ids # <<>>
                                            THEN deactivate_stops(s) ELSE s,
                                            waterbody_start_id),
                                        waterbody_start_id),
                         waterbody_start_id), s)

classify_waterbody_connectivity(s, waterbody_start_id) ==
    ClassifyWithoutStops(TenHaLakesDefined(PrepareClassifier(s)), waterbody_start_id)

ValidResultTypes == {"list", "count", "area_hectares"}

RECURSIVE SumAreas(_, _)
SumAreas(lakes, ids) ==
    IF lakes = <<>> THEN 0
    ELSE (IF Head(lakes).id \in ids THEN Head(lakes).area ELSE 0) + SumAreas(Tail(lakes), ids)

\* The area is returned in hectares: here in tenths of a hectare, the unit of
\* the areas of the model.
UpstreamLakes(lakes_areas, up, waterbody_start_id, result_type, area_threshold) ==
    LET countable_lakes == {lakes_areas[i].id :
                              i \in {j \in DOMAIN lakes_areas :
                                       lakes_areas[j].area >= area_threshold}}
        upstream_lakes == countable_lakes \cap (up.ret \ {waterbody_start_id})
    IN  Result(up.self,
               CASE result_type = "list" -> upstream_lakes
                 [] result_type = "count" -> Cardinality(upstream_lakes)
                 [] OTHER -> SumAreas(lakes_areas, upstream_lakes))

FindUpstreamLakesOf(s, waterbody_start_id, result_type, area_threshold) ==
    UpstreamLakes(s.lakes_areas, trace_up_from_a_waterbody(s, waterbody_start_id),
                  waterbody_start_id, result_type, area_threshold)

find_upstream_lakes(s, waterbody_start_id, result_type, area_threshold) ==
    IF result_type \notin ValidResultTypes THEN Raised(s, "ValueError")
    ELSE FindUpstreamLakesOf(IF s.lakes_areas = <<>> THEN define_lakes(s, FALSE) ELSE s,
                             waterbody_start_id, result_type, area_threshold)

-----------------------------------------------------------------------------
(* Erasable networks of the interlake watersheds *)

\* {k: self.trace_down_from_a_waterbody(k) for k in ids}, added to r.ret
RECURSIVE TraceDownEach(_, _)
TraceDownEach(r, ids) ==
    IF ids = <<>> THEN r
    ELSE TraceDownEach(AddResult(r, Head(ids), trace_down_from_a_waterbody(r.self, Head(ids))),
                       Tail(ids))

\* {id: self.classify_waterbody_connectivity(id) for id in ids}, added to r.ret
RECURSIVE ClassifyEach(_, _)
ClassifyEach(r, ids) ==
    IF ids = <<>> THEN r
    ELSE ClassifyEach(AddResult(r, Head(ids), classify_waterbody_connectivity(r.self, Head(ids))),
                      Tail(ids))

\* The local variables of define_interlake_erasable, with the instance.
ErasableLocals(s) ==
    [self |-> s, focal_lakes |-> s.waterbody_start_ids,
     lake_upstream_traces |-> EmptyDict, lake_downstream_traces |-> EmptyDict,
     lake_interlake_traces |-> EmptyDict, tenha_conn |-> EmptyDict,
     tenha_nets_full |-> EmptyDict, on_network |-> {}, failed |-> "no"]

\* The local variable `name` gets the value returned by r, if r did not fail.
Assigned(t, name, r) ==
    IF Failed(r) THEN [t EXCEPT !.self = r.self, !.failed = r.ret.raised]
    ELSE [t EXCEPT !.self = r.self, ![name] = r.ret]

\* Lines 596-597
FullTracesUp(t) ==
    Assigned(t, "lake_upstream_traces",
             trace_up_from_waterbody_starts(deactivate_stops(t.self)))

\* Line 598
FullTracesDown(t) ==
    Assigned(t, "lake_downstream_traces",
             TraceDownEach(Result(t.self, EmptyDict), t.focal_lakes))

\* Lines 599-600
InterlakeTraces(t) ==
    Assigned(t, "lake_interlake_traces",
             trace_up_from_waterbody_starts(activate_10ha_lake_stops(t.self).self))

\* Lines 601-605
TenHaClasses(t) ==
    Assigned(t, "tenha_conn",
             ClassifyEach(Result(deactivate_stops(t.self), EmptyDict),
                          t.self.tenha_waterbody_ids))

\* Lines 608-609: trace_up_from_waterbody_starts fails if there is no lake
\* of ten hectares.
TenHaNets(t) ==
    Assigned(t, "tenha_nets_full",
             trace_up_from_waterbody_starts(
                 set_start_ids(t.self, t.self.tenha_waterbody_ids).self))

\* Line 614
OnNetwork(t) ==
    IF t.failed # "no" THEN t
    ELSE Assigned(t, "on_network", trace_up_from_hu4_outlets(t.self))

\* Lines 611-620: the networks of the 10 ha lakes by class.
TenHaIsolated(t) == {k \in DOMAIN t.tenha_nets_full : t.tenha_conn[k] = "Isolated"}

TenHaTerminal(t) ==
    [k \in {j \in DOMAIN t.tenha_nets_full : t.tenha_conn[j] \in {"Terminal", "TerminalLk"}}
       |-> t.tenha_nets_full[k] \ t.on_network]

TenHaDrainage(t) ==
    [k \in {j \in DOMAIN t.tenha_nets_full :
              t.tenha_conn[j] \in {"Headwater", "Drainage", "DrainageLk"}}
       |-> t.tenha_nets_full[k]]

\* Lines 626-628.  difference(lake_id) takes a string as argument: what it
\* removes from the trace is the one-character strings of lake_id.
FocalTrace(traces, lake_id) == traces[lake_id] \ Chars(lake_id)

\* Lines 637-643: the donors of lake_id with their networks.
OtherTenHaEligible(t, lake_id) ==
    LET focal_downstream == FocalTrace(t.lake_downstream_traces, lake_id)
        focal_upstream == FocalTrace(t.lake_upstream_traces, lake_id)
        terminal_tenha_eligible ==
            {k \in DOMAIN TenHaTerminal(t) : k \notin focal_downstream}
        tenha_drainage_eligible ==
            {k \in DOMAIN TenHaDrainage(t) : k \in focal_upstream}
    IN  [k \in terminal_tenha_eligible \cup tenha_drainage_eligible |->
           IF k \in tenha_drainage_eligible THEN TenHaDrainage(t)[k] ELSE TenHaTerminal(t)[k]]

\* Lines 646-655
ErasableSegments(isolated_erasable_segments, other_tenha_eligible, focal_interlake) ==
    LET full_erasable == {k \in DOMAIN other_tenha_eligible :
                            other_tenha_eligible[k] \cap focal_interlake = {}}
        partial_erasable == {k \in DOMAIN other_tenha_eligible :
                               other_tenha_eligible[k] \cap focal_interlake # {}}
    IN  isolated_erasable_segments
          \cup UNION {other_tenha_eligible[k] : k \in full_erasable}
          \cup UNION {other_tenha_eligible[k] \ focal_interlake : k \in partial_erasable}

\* ErasableOf without the test of line 632.
ErasableOfShortTraces(t, lake_id) ==
    ErasableSegments(TenHaIsolated(t), OtherTenHaEligible(t, lake_id),
                     FocalTrace(t.lake_interlake_traces, lake_id))

\* Lines 624-657, for one focal lake.
ErasableOf(t, lake_id) ==
    IF Cardinality(FocalTrace(t.lake_upstream_traces, lake_id)) < 2 THEN {}
    ELSE ErasableSegments(TenHaIsolated(t), OtherTenHaEligible(t, lake_id),
                          FocalTrace(t.lake_interlake_traces, lake_id))

\* Lines 623-659
ErasableDict(t) ==
    IF t.failed # "no" THEN Raised(t.self, t.failed)
    ELSE Result(deactivate_stops(t.self),
                [lake_id \in Range(t.focal_lakes) |-> ErasableOf(t, lake_id)])

\* Lines 596-614: the traces and classes that the erasable sets are made of.
ErasableTraces(s) ==
    OnNetwork(TenHaNets(TenHaClasses(InterlakeTraces(
        FullTracesDown(FullTracesUp(ErasableLocals(s)))))))

define_interlake_erasable(s) ==
    IF s.waterbody_start_ids = <<>> THEN Raised(s, "Exception")
    ELSE ErasableDict(ErasableTraces(s))

-----------------------------------------------------------------------------
(* The flowline trace, one loop iteration at a time.  SpecTrace builds an  *)
(* instance over a flow table of at most MaxRows rows among the segments   *)
(* Seg (a row may repeat), sets barriers with set_stop_ids and runs        *)
(* trace_up_from_a_flowline / trace_down_from_a_flowline.  A trace reads   *)
(* the neighbour lists only as sets and through their lengths, so the      *)
(* tables are drawn in row order.  Every segment lies in a waterbody of    *)
(* its own, so that any set of segments can be made the barrier set.       *)

MaxRows == 3
MaxStops == 2

Seg == {<<1>>, <<2>>, <<3>>, <<4>>}

LakeOf(seg) == <<seg[1], 9>>

RowKey(r) == r[1][1] * 10 + r[2][1]

Ordered(rows) == \A i \in 1..(Len(rows) - 1) : RowKey(rows[i]) <= RowKey(rows[i + 1])

Rows == Seg \X Seg

FlowTables(n) == {t \in UNION {[1..k -> Rows] : k \in 0..n} : Ordered(t)}

SegList == <<<<1>>, <<2>>, <<3>>, <<4>>>>

OwnLakeFlowlines ==
    [i \in DOMAIN SegList |-> [id |-> SegList[i], wb |-> LakeOf(SegList[i]), fcode |-> 46006]]

OwnLakes ==
    [i \in DOMAIN SegList |-> [id |-> LakeOf(SegList[i]), area |-> 200, lagos_fcode |-> TRUE]]

\* Lists of distinct waterbodies, in the order of SegList
StopLists(n) ==
    {[i \in DOMAIN q |-> LakeOf(q[i])] :
        q \in {p \in UNION {[1..k -> Seg] : k \in 0..n} :
                 \A i \in 1..(Len(p) - 1) : p[i][1] < p[i + 1][1]}}

Idle == [pc |-> "idle"]

NoCall == [op |-> "none"]

InitTrace ==
    /\ gdb \in [flow : FlowTables(MaxRows), flowline : {OwnLakeFlowlines},
                waterbody : {OwnLakes}]
    /\ self = NewInstance
    /\ frame = Idle
    /\ call = NoCall

SetStops(waterbody_stop_ids) ==
    /\ frame.pc = "idle"
    /\ call.op = "none"
    /\ self' = set_stop_ids(self, waterbody_stop_ids).self
    /\ call' = [op |-> "set_stop_ids"]
    /\ UNCHANGED <<gdb, frame>>

TraceBegin(dir, flowline_start_id, include_wb_permids) ==
    /\ frame.pc = "idle"
    /\ call.op \in {"none", "set_stop_ids"}
    /\ LET b == TraceStart(self, dir, flowline_start_id)
       IN  /\ self' = b.self
           /\ frame' = [pc |-> "loop", dir |-> dir, start |-> flowline_start_id,
                        include_wb_permids |-> include_wb_permids, loop |-> b.loop]
    /\ UNCHANGED <<gdb, call>>

TraceIterate ==
    /\ frame.pc = "loop"
    /\ frame.loop.from_ids # {}
    /\ LET n == TraceStep(self, frame.dir, frame.loop)
       IN  /\ self' = n.self
           /\ frame' = [frame EXCEPT !.loop = n.loop]
    /\ UNCHANGED <<gdb, call>>

TraceReturn ==
    /\ frame.pc = "loop"
    /\ frame.loop.from_ids = {}
    /\ LET r == TraceFinish(self, frame.loop, frame.include_wb_permids)
       IN  /\ self' = r.self
           /\ call' = [op |-> "trace_from_a_flowline", dir |-> frame.dir,
                       start |-> frame.start,
                       include_wb_permids |-> frame.include_wb_permids,
                       loop |-> frame.loop, ret |-> r.ret]
    /\ frame' = Idle
    /\ UNCHANGED gdb

NextTrace ==
    \/ \E ws \in StopLists(MaxStops) : SetStops(ws)
    \/ \E dir \in {"up", "down"}, x \in Seg, inc \in BOOLEAN : TraceBegin(dir, x, inc)
    \/ TraceIterate
    \/ TraceReturn

SpecTrace == InitTrace /\ [][NextTrace]_vars

-----------------------------------------------------------------------------
(* The instance in use.  Spec builds an instance over a small subregion:   *)
(* three flowlines, a flow table between them, and three waterbodies:      *)
(* LakeA and LakeB, which hold flowlines, and LakeC, which holds none.     *)
(* The identifier of LakeA is a substring of the identifier of LakeB.      *)
(* Public methods are then called in any order; call records the method    *)
(* that returned last.                                                     *)

MaxInside == 1

LakeA == <<7>>
LakeB == <<7, 8>>
LakeC == <<9>>

Lakes == {LakeA, LakeB, LakeC}

Flowlines == {<<1>>, <<2>>, <<3>>}

\* No flow at all; a chain 1 -> 2 -> 3; a chain 1 -> 3 -> 2.
SmallFlowTables ==
    { <<>>,
      << <<<<1>>, <<2>>>>, <<<<2>>, <<3>>>> >>,
      << <<<<1>>, <<3>>>>, <<<<3>>, <<2>>>> >> }

\* Two lakes of one flowline each with an intermittent stream between them;
\* or a lake of two flowlines, one of them intermittent, and a lake of one.
FlowlineTables ==
    { << [id |-> <<1>>, wb |-> LakeA, fcode |-> 46006],
         [id |-> <<2>>, wb |-> None,  fcode |-> 46003],
         [id |-> <<3>>, wb |-> LakeB, fcode |-> 46006] >>,
      << [id |-> <<1>>, wb |-> LakeB, fcode |-> 46006],
         [id |-> <<2>>, wb |-> LakeB, fcode |-> 46007],
         [id |-> <<3>>, wb |-> LakeA, fcode |-> 46006] >> }

\* LakeA is below ten hectares, the other two are above.
WaterbodyTable ==
    << [id |-> LakeA, area |-> 50, lagos_fcode |-> TRUE],
       [id |-> LakeB, area |-> 200, lagos_fcode |-> TRUE],
       [id |-> LakeC, area |-> 200, lagos_fcode |-> TRUE] >>

LakeLists == {<<LakeA>>, <<LakeA, LakeB>>}

\* The number of times a waterbody stands in its own list of flowlines.
Inside(s) ==
    Cardinality({p \in Keys(s.waterbody_flowline) \X (1..(MaxInside + 3)) :
                   /\ p[2] \in DOMAIN s.waterbody_flowline[p[1]]
                   /\ s.waterbody_flowline[p[1]][p[2]] = p[1]})

Init ==
    /\ gdb \in [flow : SmallFlowTables, flowline : FlowlineTables,
                waterbody : {WaterbodyTable}]
    /\ self = NewInstance
    /\ frame = Idle
    /\ call = NoCall

\* A method that returned r, of which only the name is recorded ...
Returns(op, r) ==
    /\ self' = r.self
    /\ call' = [op |-> op]
    /\ UNCHANGED <<gdb, frame>>

\* ... and one of which the argument and the value returned are recorded too.
ReturnsValue(op, arg, r) ==
    /\ self' = r.self
    /\ call' = [op |-> op, arg |-> arg, ret |-> r.ret]
    /\ UNCHANGED <<gdb, frame>>

DropIntermittentFlow ==
    Returns("drop_intermittent_flow", Result(drop_intermittent_flow(self), None))

IncludeIntermittentFlow ==
    Returns("include_intermittent_flow", Result(include_intermittent_flow(self), None))

SetStopIds(ids) == Returns("set_stop_ids", set_stop_ids(self, ids))

Activate10haLakeStops == Returns("activate_10ha_lake_stops", activate_10ha_lake_stops(self))

DeactivateStops == Returns("deactivate_stops", Result(deactivate_stops(self), None))

TraceUpFromAWaterbody(w) ==
    ReturnsValue("trace_up_from_a_waterbody", w, trace_up_from_a_waterbody(self, w))

TraceDownFromAWaterbody(w) ==
    ReturnsValue("trace_down_from_a_waterbody", w, trace_down_from_a_waterbody(self, w))

IdentifyLakeOutlets(w) ==
    ReturnsValue("identify_lake_outlets", w, identify_lake_outlets(self, w))

IdentifyLakeInlets(w) ==
    ReturnsValue("identify_lake_inlets", w, identify_lake_inlets(self, w))

\* A classification that is not of the first kind appends the waterbody to
\* its own list of flowlines: at most MaxInside such entries are made.
ClassifyWaterbodyConnectivity(w) ==
    /\ Inside(self) < MaxInside
    /\ ReturnsValue("classify_waterbody_connectivity", w,
                    classify_waterbody_connectivity(self, w))

Next ==
    \/ DropIntermittentFlow
    \/ IncludeIntermittentFlow
    \/ \E ids \in LakeLists : SetStopIds(ids)
    \/ Activate10haLakeStops
    \/ DeactivateStops
    \/ \E w \in Lakes : TraceUpFromAWaterbody(w)
    \/ \E w \in Lakes : TraceDownFromAWaterbody(w)
    \/ \E w \in Lakes : IdentifyLakeOutlets(w)
    \/ \E w \in Lakes : IdentifyLakeInlets(w)
    \/ \E w \in Lakes : ClassifyWaterbodyConnectivity(w)

Spec == Init /\ [][Next]_vars

-----------------------------------------------------------------------------
(* The erasable networks.  SpecErasable builds an instance over three      *)
(* flowlines that lie in any of the three lakes or in none, lakes above or *)
(* below ten hectares, and a flow table; focal lakes are set with          *)
(* set_start_ids, lakes are classified, and define_interlake_erasable is   *)
(* called.  call then holds, with the dictionary returned, the traces and  *)
(* classes (the local variables) the method made it of.                    *)

\* A chain 1 -> 2 -> 3; the chain flowing out of the subregion; a stream
\* 1 -> 2 with flowline 3 apart; a confluence of 1 and 2 into 3.
ErasableFlowTables ==
    { << <<<<1>>, <<2>>>>, <<<<2>>, <<3>>>> >>,
      << <<<<1>>, <<2>>>>, <<<<2>>, <<3>>>>, <<<<3>>, Null>> >>,
      << <<<<1>>, <<2>>>> >>,
      << <<<<1>>, <<3>>>>, <<<<2>>, <<3>>>> >> }

ErasableFlowlineTables ==
    { << [id |-> <<1>>, wb |-> w1, fcode |-> 46006],
         [id |-> <<2>>, wb |-> w2, fcode |-> 46006],
         [id |-> <<3>>, wb |-> w3, fcode |-> 46006] >> :
      w1 \in Lakes \cup {None}, w2 \in Lakes \cup {None}, w3 \in Lakes \cup {None} }

LakeAreas == {50, 200}

\* LakeC is above ten hectares, the other two are above or below.
ErasableWaterbodyTables ==
    { << [id |-> LakeA, area |-> a, lagos_fcode |-> TRUE],
         [id |-> LakeB, area |-> b, lagos_fcode |-> TRUE],
         [id |-> LakeC, area |-> 200, lagos_fcode |-> TRUE] >> :
      a \in LakeAreas, b \in LakeAreas }

FocalLists == {<<LakeA>>, <<LakeB>>, <<LakeB, LakeC>>}

InitErasable ==
    /\ gdb \in [flow : ErasableFlowTables, flowline : ErasableFlowlineTables,
                waterbody : ErasableWaterbodyTables]
    /\ self = NewInstance
    /\ frame = Idle
    /\ call = NoCall

SetStartIds(ids) == ReturnsValue("set_start_ids", ids, set_start_ids(self, ids))

\* define_interlake_erasable returned r (or raised); t holds its local
\* variables.
ReturnsErasable(r, t) ==
    /\ self' = r.self
    /\ call' = [op |-> "define_interlake_erasable", arg |-> self.waterbody_start_ids,
                raised |-> Failed(r), ret |-> r.ret,
                lake_upstream_traces |-> t.lake_upstream_traces,
                lake_downstream_traces |-> t.lake_downstream_traces,
                lake_interlake_traces |-> t.lake_interlake_traces,
                tenha_conn |-> t.tenha_conn,
                tenha_nets_full |-> t.tenha_nets_full,
                on_network |-> t.on_network]
    /\ UNCHANGED <<gdb, frame>>

\* The classifications made by the method append to the lists of flowlines
\* too: the method is called as long as no such entry was made.
DefineInterlakeErasable ==
    /\ Inside(self) < MaxInside
    /\ ReturnsErasable(define_interlake_erasable(self),
                       IF self.waterbody_start_ids = <<>> THEN ErasableLocals(self)
                       ELSE ErasableTraces(self))

NextErasable ==
    \/ \E ids \in FocalLists : SetStartIds(ids)
    \/ \E w \in Lakes : ClassifyWaterbodyConnectivity(w)
    \/ DefineInterlakeErasable

SpecErasable == InitErasable /\ [][NextErasable]_vars

-----------------------------------------------------------------------------
(* The flow dictionaries and the subregion outlets.  SpecFlow builds an    *)
(* instance over flow tables that have rows with the null id '0', cycles   *)
(* and several sinks, with permanent and intermittent flowlines; the flow  *)
(* dictionaries are built, refreshed by the intermittent-flow toggles and  *)
(* read by flowline traces and by the subregion inlet and outlet methods.  *)

FlowSegs == {<<1>>, <<2>>, <<3>>, <<4>>}

\* The rows ('1','2'), ('2','0') and so on.
Row(from_id, to_id) == <<from_id, to_id>>

NullFlowTables ==
    { <<>>,
      <<Row(<<1>>, <<2>>), Row(<<2>>, Null)>>,
      <<Row(Null, <<1>>), Row(<<1>>, <<2>>), Row(<<2>>, <<3>>)>>,
      <<Row(<<1>>, <<2>>), Row(<<2>>, <<1>>), Row(<<3>>, <<4>>)>>,
      <<Row(Null, <<1>>), Row(<<1>>, <<2>>), Row(<<2>>, <<3>>), Row(<<3>>, Null)>>,
      <<Row(<<1>>, <<3>>), Row(<<2>>, <<3>>), Row(<<3>>, <<4>>)>>,
      <<Row(<<1>>, <<2>>), Row(Null, <<2>>)>>,
      <<Row(<<1>>, <<2>>), Row(<<2>>, <<1>>)>>,
      <<Row(<<1>>, Null), Row(<<2>>, Null), Row(<<3>>, <<4>>)>>,
      <<Row(Null, <<2>>), Row(<<1>>, Null), Row(<<1>>, <<2>>)>> }

\* Flowline 2 is intermittent; or flowlines 1 and 3 are.  No flowline lies
\* in a waterbody.
IntermittentTables ==
    { [i \in 1..4 |-> [id |-> <<i>>, wb |-> None,
                       fcode |-> IF i \in ids THEN 46003 ELSE 46006]] :
      ids \in {{2}, {1, 3}} }

InitFlow ==
    /\ gdb \in [flow : NullFlowTables, flowline : IntermittentTables, waterbody : {<<>>}]
    /\ self = NewInstance
    /\ frame = Idle
    /\ call = NoCall

\* A method that returned r or raised an exception.
ReturnsOrRaises(op, arg, r) ==
    /\ self' = r.self
    /\ call' = [op |-> op, arg |-> arg, raised |-> Failed(r), ret |-> r.ret]
    /\ UNCHANGED <<gdb, frame>>

PrepareUpstream == Returns("prepare_upstream", Result(prepare_upstream(self, FALSE), None))

PrepareDownstream == Returns("prepare_downstream", Result(prepare_downstream(self, FALSE), None))

\* drop_intermittent_flow; call keeps the dictionaries and the policy that
\* the method found.
DropIntermittentFlowToggle ==
    /\ self' = drop_intermittent_flow(self)
    /\ call' = [op |-> "drop_intermittent_flow",
                before |-> [upstream |-> self.upstream, downstream |-> self.downstream,
                            exclude_intermittent_flow |-> self.exclude_intermittent_flow]]
    /\ UNCHANGED <<gdb, frame>>

\* include_intermittent_flow; if it is called right after
\* drop_intermittent_flow, call keeps what that call found.
IncludeIntermittentFlowToggle ==
    /\ self' = include_intermittent_flow(self)
    /\ call' = IF call.op = "drop_intermittent_flow"
               THEN [op |-> "include_intermittent_flow", after_drop |-> TRUE,
                     before |-> call.before]
               ELSE [op |-> "include_intermittent_flow", after_drop |-> FALSE]
    /\ UNCHANGED <<gdb, frame>>

TraceUpFromAFlowline(id) ==
    ReturnsOrRaises("trace_up_from_a_flowline", id, trace_up_from_a_flowline(self, id, TRUE))

TraceDownFromAFlowline(id) ==
    ReturnsOrRaises("trace_down_from_a_flowline", id, trace_down_from_a_flowline(self, id, TRUE))

IdentifySubregionInlets ==
    ReturnsOrRaises("identify_subregion_inlets", None, identify_subregion_inlets(self))

\* call keeps the flow dictionary that the method read, too.
IdentifySubregionOutlets ==
    ReturnsOrRaises("identify_subregion_outlets", prepare_upstream(self, FALSE).upstream,
                    identify_subregion_outlets(self))

NextFlow ==
    \/ PrepareUpstream
    \/ PrepareDownstream
    \/ DropIntermittentFlowToggle
    \/ IncludeIntermittentFlowToggle
    \/ \E id \in FlowSegs : TraceUpFromAFlowline(id)
    \/ \E id \in FlowSegs : TraceDownFromAFlowline(id)
    \/ IdentifySubregionInlets
    \/ IdentifySubregionOutlets

SpecFlow == InitFlow /\ [][NextFlow]_vars

-----------------------------------------------------------------------------
(* Subregions with little in them.  SpecSparse builds an instance over a   *)
(* flow table with no row, with a null row only, or with a short stream,   *)
(* and lakes all of which may be below ten hectares; with or without focal *)
(* lakes set, the batch trace, define_interlake_erasable and               *)
(* identify_subregion_outlets are called.                                  *)

SparseFlowTables ==
    { <<>>,
      << Row(Null, <<1>>) >>,
      << Row(<<1>>, <<2>>) >>,
      << Row(<<1>>, <<2>>), Row(<<2>>, <<3>>) >> }

SparseFlowlineTables ==
    { << [id |-> <<1>>, wb |-> w1, fcode |-> 46006],
         [id |-> <<2>>, wb |-> w2, fcode |-> 46006],
         [id |-> <<3>>, wb |-> w3, fcode |-> 46006] >> :
      w1 \in Lakes \cup {None}, w2 \in Lakes \cup {None}, w3 \in {LakeC, None} }

\* LakeC is below ten hectares, the other two are above or below.
SparseWaterbodyTables ==
    { << [id |-> LakeA, area |-> a, lagos_fcode |-> TRUE],
         [id |-> LakeB, area |-> b, lagos_fcode |-> TRUE],
         [id |-> LakeC, area |-> 50, lagos_fcode |-> TRUE] >> :
      a \in LakeAreas, b \in LakeAreas }

InitSparse ==
    /\ gdb \in [flow : SparseFlowTables, flowline : SparseFlowlineTables,
                waterbody : SparseWaterbodyTables]
    /\ self = NewInstance
    /\ frame = Idle
    /\ call = NoCall

TraceUpFromWaterbodyStarts ==
    ReturnsOrRaises("trace_up_from_waterbody_starts", self.waterbody_start_ids,
                    trace_up_from_waterbody_starts(self))

NextSparse ==
    \/ \E ids \in FocalLists : SetStartIds(ids)
    \/ TraceUpFromWaterbodyStarts
    \/ DefineInterlakeErasable
    \/ IdentifySubregionOutlets

SpecSparse == InitSparse /\ [][NextSparse]_vars

-----------------------------------------------------------------------------
(* Properties of the flowline trace, checked under SpecTrace *)

\* The segments from which `start` is reached through d: the least set that
\* holds `start` and the neighbours of its members, skipping `without`.
RECURSIVE Closure(_, _, _)
Closure(d, ids, without) ==
    LET more == (ids \cup Flat(d, ids)) \ without
    IN  IF more = ids THEN ids ELSE Closure(d, more, without)

Reachable(d, start) == Closure(d, {start}, {})

\* The segments all of whose paths to `start` pass through b.
Beyond(d, start, b) == (Reachable(d, start) \ Closure(d, {start}, {b})) \ {b}

Returned == call.op = "trace_from_a_flowline"

ReturnedDict == FlowDict(self, call.dir)

ActiveStops == Range(self.flowline_stop_ids)

Chain == <<<<<<1>>, <<2>>>>, <<<<2>>, <<3>>>>, <<<<3>>, <<4>>>>>>

\* C1: the result of trace_up_from_a_flowline(x) and of
\* trace_down_from_a_flowline(x) contains x, for every flow table (cyclic ones
\* included) and every barrier configuration.
C1_TraceContainsStart == Returned => call.start \in call.ret

\* a trace that returned with barriers active, the start itself a barrier
\* and on a cycle
C1_Witness ==
    /\ Returned
    /\ call.start \in ActiveStops
    /\ call.start \in Flat(ReturnedDict, call.ret)
    /\ call.start \in call.ret

\* C2: with no active barriers and include_wb_permids = False,
\* trace_up_from_a_flowline(x) is x together with every segment from which x
\* is reached through the upstream dictionary, on acyclic and cyclic tables.
C2_TraceUpIsReachableSet ==
    (Returned /\ call.dir = "up" /\ ~call.include_wb_permids /\ ActiveStops = {})
        => call.ret = Reachable(self.upstream, call.start)

\* an upstream trace without barriers over a cycle through the start that
\* also reaches a segment off the cycle
C2_Witness ==
    /\ Returned /\ call.dir = "up" /\ ~call.include_wb_permids /\ ActiveStops = {}
    /\ call.start \in Flat(self.upstream, call.ret \ {call.start})
    /\ Cardinality(call.ret) >= 3
    /\ call.ret = Reachable(self.upstream, call.start)

LoopOf == IF frame.pc = "loop" THEN frame.loop ELSE call.loop

\* C3: the frontier loop ends: it runs at most 2 * limit iterations in all,
\* and at most limit iterations from the one in which the visited list is
\* first found to hold limit entries, with cycles, self-loops and barriers.
C3_LoopBounded ==
    (frame.pc = "loop" \/ Returned)
        => /\ LoopOf.iters <= 2 * LoopOf.limit
           /\ LoopOf.since <= LoopOf.limit

\* a loop that ended exactly limit iterations after the list reached limit
\* entries, on a table with a cycle
C3_Witness ==
    /\ Returned
    /\ call.loop.since = call.loop.limit
    /\ call.loop.limit >= 2
    /\ \E y \in call.ret : y \in Flat(ReturnedDict, Reachable(ReturnedDict, y))

\* C4: when flowline_stop_ids holds a segment b other than the start x, the
\* result holds no segment all of whose paths to x pass through b.
C4_NothingBeyondABarrier ==
    Returned =>
        \A b \in ActiveStops \ {call.start} :
            call.ret \cap Beyond(ReturnedDict, call.start, b) = {}

-----------------------------------------------------------------------------
(* Properties of the waterbody operations, checked under Spec *)

\* The flowlines that the flowline table puts in waterbody w.
OwnFlowlines(w) ==
    {gdb.flowline[i].id : i \in {j \in DOMAIN gdb.flowline : gdb.flowline[j].wb = w}}

\* The waterbodies that the flowline table gives for the flowlines ids.
WaterbodiesOf(ids) ==
    {gdb.flowline[i].wb : i \in {j \in DOMAIN gdb.flowline :
                                   gdb.flowline[j].id \in ids /\ gdb.flowline[j].wb # None}}

\* The flowlines of w that are no neighbour, in dictionary d, of a flowline of w.
LowestFlowlines(d, w) ==
    {f \in OwnFlowlines(w) : \A g \in OwnFlowlines(w) : f \notin Range(Get(d, g))}

\* What a trace through d from the set starts may hold when the flowlines
\* stops are barriers: what is reached without crossing a barrier, and the
\* barriers met.
HonouredReach(d, starts, stops) ==
    LET open == starts \cup Closure(d, starts, stops)
    IN  open \cup (Flat(d, open) \cap stops)

\* The trace of w through d without barriers, w and its flowlines taken out.
NonSelfTrace(d, w) ==
    LET reached == Closure(d, LowestFlowlines(d, w), {})
    IN  (reached \cup WaterbodiesOf(reached)) \ (OwnFlowlines(w) \cup {w})

TracedFromAWaterbody ==
    call.op \in {"trace_up_from_a_waterbody", "trace_down_from_a_waterbody"}

\* C6: in every state the instance can reach, trace_up_from_a_waterbody(w)
\* and trace_down_from_a_waterbody(w) return an empty trace for a waterbody w
\* that has no flowline rows.
C6_NoFlowlinesEmptyTrace ==
    (TracedFromAWaterbody /\ OwnFlowlines(call.arg) = {}) => call.ret = {}

\* C7: when the waterbody w traced is itself an active barrier,
\* trace_up_from_a_waterbody(w) is not blocked by the flowlines of w and
\* returns w with its flowlines if w has an outlet, and every other active
\* barrier is honoured: no other barrier waterbody is returned, and no
\* flowline that lies beyond another barrier flowline.
C7_OwnBarrierOnlyLifted ==
    (call.op = "trace_up_from_a_waterbody" /\ call.arg \in Range(self.waterbody_stop_ids))
        => LET w == call.arg
               ends == LowestFlowlines(self.upstream, w)
               others == ActiveStops \ OwnFlowlines(w)
           IN  /\ ends # {} => ends \cup {w} \subseteq call.ret
               /\ call.ret \cap (Range(self.waterbody_stop_ids) \ {w}) = {}
               /\ call.ret \cap Flowlines \subseteq HonouredReach(self.upstream, ends, others)

Designated == {"set_stop_ids", "activate_10ha_lake_stops", "deactivate_stops"}

\* C8: flowline_stop_ids and waterbody_stop_ids are changed by set_stop_ids,
\* activate_10ha_lake_stops and deactivate_stops only: any other operation
\* returns with both as they were when it was called.
C8_StopsChangedByDesignatedOnly ==
    [][call'.op \notin Designated
         => /\ self'.flowline_stop_ids = self.flowline_stop_ids
            /\ self'.waterbody_stop_ids = self.waterbody_stop_ids]_vars

\* C9: identify_lake_outlets(w) returns the flowlines of w that are not an
\* upstream neighbour of a flowline of w, and identify_lake_inlets(w) those
\* that are not a downstream neighbour of one.
C9_LakeEndsAreLowestFlowlines ==
    /\ call.op = "identify_lake_outlets" => call.ret = LowestFlowlines(self.upstream, call.arg)
    /\ call.op = "identify_lake_inlets" => call.ret = LowestFlowlines(self.downstream, call.arg)

\* C10: classify_waterbody_connectivity(w) returns 'Isolated' exactly when
\* the upstream and the downstream trace of w without barriers, w and its
\* flowlines taken out, are both empty, whether intermittent flow is excluded
\* or not.
C10_IsolatedIffNoNonSelfTrace ==
    call.op = "classify_waterbody_connectivity"
        => (call.ret = "Isolated"
              <=> /\ NonSelfTrace(self.upstream, call.arg) = {}
                  /\ NonSelfTrace(self.downstream, call.arg) = {})

\* A waterbody without flowlines is classified while intermittent flow is
\* excluded: its two traces are empty and it is found isolated.
C10_Witness ==
    /\ call.op = "classify_waterbody_connectivity"
    /\ self.exclude_intermittent_flow
    /\ OwnFlowlines(call.arg) = {}
    /\ call.ret = "Isolated"

\* The lakes of the waterbody table of ten hectares and more.
LargeLakes ==
    {gdb.waterbody[i].id : i \in {j \in DOMAIN gdb.waterbody :
                                    /\ gdb.waterbody[j].lagos_fcode
                                    /\ gdb.waterbody[j].area >= LakeMinSize
                                    /\ gdb.waterbody[j].area >= TenHaArea}}

\* The label that goes with an upstream and a downstream trace.
LabelOf(up, down) ==
    IF up = {} THEN (IF down = {} THEN "Isolated" ELSE "Headwater")
    ELSE IF down = {} THEN (IF up \cap LargeLakes # {} THEN "TerminalLk" ELSE "Terminal")
         ELSE (IF up \cap LargeLakes # {} THEN "DrainageLk" ELSE "Drainage")

C26_ClassifierKeepsIdentifierMaps ==
    \A w \in Keys(self.waterbody_flowline) :
        /\ w \notin Range(self.waterbody_flowline[w])
        /\ Range(self.waterbody_flowline[w]) = OwnFlowlines(w)
        /\ Len(self.waterbody_flowline[w]) = Cardinality(OwnFlowlines(w))
-----------------------------------------------------------------------------
(* Properties of the erasable networks, checked under SpecErasable *)

\* define_interlake_erasable returned a dictionary.
Erased == call.op = "define_interlake_erasable" /\ ~call.raised

\* C12: a focal lake whose full upstream trace (the trace without barriers)
\* has fewer than two elements gets the empty set as its erasable set,
\* whatever the other lakes are.
C12_ShortTraceNothingErasable ==
    Erased => \A k \in DOMAIN call.ret :
                Cardinality(call.lake_upstream_traces[k]) < 2 => call.ret[k] = {}

\* A focal lake with a trace of fewer than two elements, while a lake of ten
\* hectares is Isolated and another one is not.
C12_Witness ==
    /\ Erased
    /\ \E k \in DOMAIN call.ret : Cardinality(call.lake_upstream_traces[k]) < 2
    /\ \E j \in DOMAIN call.tenha_conn : call.tenha_conn[j] = "Isolated"
    /\ \E j \in DOMAIN call.tenha_conn : call.tenha_conn[j] # "Isolated"

\* The lakes of ten hectares of class Isolated, of a terminal class, of a
\* drainage class, as the method classified them.
IsolatedLakes == {d \in LargeLakes \cap DOMAIN call.tenha_conn : call.tenha_conn[d] = "Isolated"}

TerminalLakes ==
    {d \in LargeLakes \cap DOMAIN call.tenha_conn : call.tenha_conn[d] \in {"Terminal", "TerminalLk"}}

DrainageLakes ==
    {d \in LargeLakes \cap DOMAIN call.tenha_conn :
       call.tenha_conn[d] \in {"Headwater", "Drainage", "DrainageLk"}}

\* The eligible donors of focal lake k.
Donors(k) ==
    {d \in TerminalLakes : d \notin call.lake_downstream_traces[k]}
      \cup {d \in DrainageLakes : d \in call.lake_upstream_traces[k]}

\* The network that donor d gives: for a terminal lake, less the main network.
DonorNetwork(d) ==
    IF d \in TerminalLakes THEN call.tenha_nets_full[d] \ call.on_network
    ELSE call.tenha_nets_full[d]

\* The Isolated lakes of ten hectares with their networks.
IsolatedNetworks == IsolatedLakes \cup UNION {call.tenha_nets_full[d] : d \in IsolatedLakes}

\* C13: for a focal lake k with at least two elements in its full upstream
\* trace, the erasable set is, apart from the part of the Isolated lakes, the
\* union over the eligible donors (terminal lakes of ten hectares not in the
\* full downstream trace of k, drainage lakes of ten hectares in the full
\* upstream trace of k) of the donor network less the interlake trace of k.
C13_ErasableFromDonors ==
    Erased => \A k \in DOMAIN call.ret :
                Cardinality(call.lake_upstream_traces[k]) >= 2
                  => call.ret[k] \ IsolatedNetworks
                       = UNION {DonorNetwork(d) \ call.lake_interlake_traces[k] : d \in Donors(k)}
                           \ IsolatedNetworks

\* C14: for every focal lake with at least two elements in its full upstream
\* trace, the erasable set holds the entire trace of every lake of ten
\* hectares classified Isolated: the lake and all of its flowlines.
C14_IsolatedErasedEntirely ==
    Erased => \A k \in DOMAIN call.ret :
                Cardinality(call.lake_upstream_traces[k]) >= 2
                  => \A d \in IsolatedLakes :
                       {d} \cup OwnFlowlines(d) \cup call.tenha_nets_full[d] \subseteq call.ret[k]

\* The lakes that the method takes as donors of focal lake k.
DonorsTaken(k) == DOMAIN OtherTenHaEligible(call, k)

\* C15: for every focal lake k with a non-empty full upstream trace, the
\* erasable set of k is not a superset of that trace, and no other lake whose
\* network holds k (k is an upstream lake of it) is taken as a donor of k.
C15_WatershedNotErased ==
    Erased => \A k \in DOMAIN call.ret :
                call.lake_upstream_traces[k] # {}
                  => /\ ~(call.lake_upstream_traces[k] \subseteq call.ret[k])
                     /\ \A d \in DonorsTaken(k) \ {k} : k \notin call.tenha_nets_full[d]

\* The label of lake k by its traces without barriers through the
\* dictionaries of the instance.
BarrierFreeLabel(k) ==
    LabelOf(NonSelfTrace(self.upstream, k), NonSelfTrace(self.downstream, k))

\* C24: a focal lake that is Isolated or Headwater by its traces without
\* barriers (nothing but the lake and its own flowlines upstream) gets the
\* empty erasable set, however many flowlines lie inside it.
C24_NoUpstreamNothingErasable ==
    Erased => \A k \in DOMAIN call.ret :
                BarrierFreeLabel(k) \in {"Isolated", "Headwater"} => call.ret[k] = {}

\* C25: before the eligibility tests the id of the focal lake, and nothing
\* else, is taken out of its full upstream, full downstream and interlake
\* traces, whatever the length of the id; and no focal lake is taken as a
\* donor of its own erasable set.
C25_OwnIdDroppedFromTraces ==
    Erased => \A k \in DOMAIN call.ret :
                /\ FocalTrace(call.lake_upstream_traces, k) = call.lake_upstream_traces[k] \ {k}
                /\ FocalTrace(call.lake_downstream_traces, k) = call.lake_downstream_traces[k] \ {k}
                /\ FocalTrace(call.lake_interlake_traces, k) = call.lake_interlake_traces[k] \ {k}
                /\ Cardinality(FocalTrace(call.lake_upstream_traces, k)) >= 2
                     => k \notin DonorsTaken(k)

\* C28: define_interlake_erasable returns a dictionary whose keys are the
\* waterbody start ids set when it was called, and when it returns
\* waterbody_start_ids and flowline_start_ids are what they were at the call.
C28_FocalLakesKeptAsStarts ==
    [][(call'.op = "define_interlake_erasable" /\ ~call'.raised)
         => /\ DOMAIN call'.ret = Range(self.waterbody_start_ids)
            /\ self'.waterbody_start_ids = self.waterbody_start_ids
            /\ self'.flowline_start_ids = self.flowline_start_ids]_vars

\* C29: the erasable set of a focal lake has no element in common with the
\* interlake trace of that lake; it holds neither the id of the focal lake
\* nor any of its flowlines.
C29_ErasableOutsideInterlake ==
    Erased => \A k \in DOMAIN call.ret :
                /\ call.ret[k] \cap call.lake_interlake_traces[k] = {}
                /\ k \notin call.ret[k]
                /\ call.ret[k] \cap OwnFlowlines(k) = {}

-----------------------------------------------------------------------------
(* Properties of the flow dictionaries and the subregion outlets, checked  *)
(* under SpecFlow *)

OutletsReturned == call.op = "identify_subregion_outlets" /\ ~call.raised

\* What identify_subregion_outlets starts from in the dictionary d it read:
\* the sinks (keys that are in no neighbour list), the primary sinks (the
\* sinks other than '0'), the primary candidates (the neighbours of the
\* primary sinks) and what is traced from them.
Sinks(d) == Keys(d) \ Flat(d, Keys(d))

PrimaryCandidates(d) == Flat(d, Sinks(d) \ {Null})

Covered(d) == Closure(d, PrimaryCandidates(d), {})

\* There is no primary candidate, or the primary candidates fail the 50%
\* coverage check.
FallbackTaken(d) ==
    \/ PrimaryCandidates(d) = {}
    \/ 2 * Cardinality(Covered(d)) < Cardinality(Flat(d, Keys(d)))

\* The only sinks are '0', or '0' and the primary sinks.
OnlyNullSinks(d) == Null \in Sinks(d)

\* C16: when the primary candidates fail the coverage check (or there are
\* none) and the only sinks found are '0', alone or with the primary sinks,
\* identify_subregion_outlets returns, and stores in self.outlets, the
\* immediate upstream neighbours of '0'.
C16_FrontalOutletsAboveNull ==
    (OutletsReturned /\ FallbackTaken(call.arg) /\ OnlyNullSinks(call.arg))
        => /\ Range(call.ret) = Range(Get(call.arg, Null))
           /\ self.outlets = call.ret

\* C17: after every call of identify_subregion_outlets that returns,
\* outlets_type is "primary" if the primary candidates passed the coverage
\* check and were returned, and "secondary" in every case where the fallback
\* was taken, frontal drainage included.
C17_OutletsTypeRecorded ==
    OutletsReturned
        => IF FallbackTaken(call.arg) THEN self.outlets_type = "secondary"
           ELSE self.outlets_type = "primary" /\ Range(call.ret) = PrimaryCandidates(call.arg)

\* Position i of the flow table is the last row that sets the entry of its
\* to_id (from = FALSE) or of its from_id (from = TRUE) to the empty list.
NullRows(from) ==
    {i \in DOMAIN gdb.flow :
       /\ gdb.flow[i][IF from THEN 2 ELSE 1] = Null
       /\ \A j \in DOMAIN gdb.flow :
            j > i => gdb.flow[j][IF from THEN 1 ELSE 2] # gdb.flow[i][IF from THEN 1 ELSE 2]}

\* The ids that the rows of the flow table give as partner of '0' and that
\* the policy in force does not exclude.
NullPartners(from) ==
    {gdb.flow[i][IF from THEN 1 ELSE 2] :
       i \in {j \in DOMAIN gdb.flow : gdb.flow[j][IF from THEN 2 ELSE 1] = Null}}
      \ self.intermit_flowline_ids

IntermittentIds ==
    {gdb.flowline[i].id : i \in {j \in DOMAIN gdb.flowline :
                                   gdb.flowline[j].fcode \in IntermittentFCodes}}

\* No neighbour list of d holds an intermittent flowline.
NoIntermittentNeighbour(d) == \A k \in Keys(d) : Range(d[k]) \cap IntermittentIds = {}

\* Every row of the flow table is an edge of d, a dictionary keyed by column
\* key (1 or 2) whose lists hold the ids of column other, unless d is not
\* built or a later row with '0' sets the entry of the key to the empty list.
EveryEdgeIn(d, key, other) ==
    Keys(d) # {} =>
        \A i \in DOMAIN gdb.flow :
            \/ gdb.flow[i][other] = Null
            \/ \E j \in DOMAIN gdb.flow :
                 j > i /\ gdb.flow[j][other] = Null /\ gdb.flow[j][key] = gdb.flow[i][key]
            \/ gdb.flow[i][other] \in Range(Get(d, gdb.flow[i][key]))

\* C19: from the return of drop_intermittent_flow until the next
\* include_intermittent_flow (exclude_intermittent_flow is true), whether a
\* dictionary was built before the call and refreshed or built afterwards,
\* no neighbour list of upstream or downstream holds an intermittent
\* flowline; after include_intermittent_flow no edge is filtered.
C19_IntermittentFilteredWhileDropped ==
    IF self.exclude_intermittent_flow
    THEN NoIntermittentNeighbour(self.upstream) /\ NoIntermittentNeighbour(self.downstream)
    ELSE EveryEdgeIn(self.upstream, 2, 1) /\ EveryEdgeIn(self.downstream, 1, 2)

\* drop_intermittent_flow returned, and both dictionaries were built before
\* it with intermittent flowlines in their lists.
C19_Witness ==
    /\ call.op = "drop_intermittent_flow"
    /\ self.exclude_intermittent_flow
    /\ ~NoIntermittentNeighbour(call.before.upstream)
    /\ ~NoIntermittentNeighbour(call.before.downstream)
    /\ Keys(self.upstream) # {}

\* C20: drop_intermittent_flow followed by include_intermittent_flow leaves
\* upstream and downstream identical to what they were before the first
\* call, whether they were not built, freshly built, or built and read by
\* traces, when intermittent flow was included before.
C20_ToggleRoundTrip ==
    (/\ call.op = "include_intermittent_flow"
     /\ call.after_drop
     /\ ~call.before.exclude_intermittent_flow)
        => /\ self.upstream = call.before.upstream
           /\ self.downstream = call.before.downstream


\* C23: once upstream is built, every segment t with a row ('0', t) has an
\* empty upstream list, and once downstream is built every segment f with a
\* row (f, '0') has an empty downstream list, whatever other rows name the
\* segment and wherever in the table they stand.
C23_NullRowEmptiesWhateverTheOrder ==
    /\ Keys(self.upstream) # {}
         => \A i \in DOMAIN gdb.flow :
               gdb.flow[i][1] = Null => Get(self.upstream, gdb.flow[i][2]) = <<>>
    /\ Keys(self.downstream) # {}
         => \A i \in DOMAIN gdb.flow :
               gdb.flow[i][2] = Null => Get(self.downstream, gdb.flow[i][1]) = <<>>


\* The methods that trace the flow graph or read it for the ends of a lake.
GraphReaders ==
    {"trace_up_from_a_flowline", "trace_down_from_a_flowline",
     "identify_lake_outlets", "identify_lake_inlets"}

\* C27: tracing and the discovery of lake outlets and inlets only read the
\* flow graph: a flow dictionary that was built before the call has the same
\* keys and the same neighbour lists when the call returns.
C27_TracesReadOnly ==
    [][call'.op \in GraphReaders
         => /\ Keys(self.upstream) # {} => self'.upstream = self.upstream
            /\ Keys(self.downstream) # {} => self'.downstream = self.downstream]_vars

\* The traces of the flowline segments through the instance as it is.
UpTraces == [x \in FlowSegs |-> trace_up_from_a_flowline(self, x, FALSE).ret]

DownTraces == [y \in FlowSegs |-> trace_down_from_a_flowline(self, y, FALSE).ret]

\* C30: with no barrier active the two directions of trace are dual: for
\* segments x and y other than '0', y is in the trace up from x exactly if x
\* is in the trace down from y, whether intermittent flow is excluded or not.
C30_TraceDirectionsDual ==
    self.flowline_stop_ids = <<>>
        => \A x \in FlowSegs : \A y \in FlowSegs :
              y \in UpTraces[x] <=> x \in DownTraces[y]
-----------------------------------------------------------------------------
(* Properties of sparse subregions, checked under SpecSparse *)

\* C21: trace_up_from_waterbody_starts and define_interlake_erasable, called
\* while waterbody_start_ids is empty, end in an exception and return no
\* result, and the instance (start ids, stop ids, flow dictionaries,
\* identifier maps) is then exactly what it was before the call.
C21_EmptyStartsFailUnchanged ==
    [][(/\ call'.op \in {"trace_up_from_waterbody_starts", "define_interlake_erasable"}
        /\ self.waterbody_start_ids = <<>>)
       => (call'.raised /\ call'.ret = [raised |-> "Exception"] /\ self' = self)]_vars

\* The batch trace has failed on an instance whose dictionaries and maps
\* were built by earlier calls.
C21_Witness ==
    /\ call.op = "trace_up_from_waterbody_starts"
    /\ call.raised
    /\ self.waterbody_start_ids = <<>>
    /\ Keys(self.upstream) # {}
    /\ Keys(self.waterbody_flowline) # {}


\* No lake of the subregion reaches ten hectares.
NoTenHaLake == \A i \in DOMAIN gdb.waterbody : gdb.waterbody[i].area < TenHaArea

\* No segment of the flow dictionary d has an upstream neighbour.
NoNeighbour(d) == \A k \in Keys(d) : d[k] = <<>>

\* C22: absence of data is no error.  define_interlake_erasable, called with
\* focal lakes set in a subregion with no lake of ten hectares, returns an
\* erasable set for every focal lake, and identify_subregion_outlets returns
\* a list of outlets when no segment has an upstream neighbour; neither
\* raises.
C22_AbsenceIsNoError ==
    /\ (call.op = "define_interlake_erasable" /\ call.arg # <<>> /\ NoTenHaLake)
          => (~call.raised /\ DOMAIN call.ret = Range(call.arg))
    /\ (call.op = "identify_subregion_outlets" /\ NoNeighbour(call.arg))
          => ~call.raised
=============================================================================
